---- MODULE Spec2Model ----
(***************************************************************************)
(* Enrichment pipeline of map-search: the search cache and the retrying    *)
(* search client of LocationAnalyzer (src/location_analyzer.py) and the    *)
(* contract cache and contract search of USASpendingAPI                    *)
(* (src/usaspending_api.py).                                               *)
(*                                                                         *)
(* Coordinates are integers counting thirds of 0.0001 degree, so that      *)
(* several distinct readings round to the same 4-decimal value and no      *)
(* reading is a rounding tie.  Texts (error messages) are sequences of     *)
(* words.  The timestamp and the credential suffix of an audit record are  *)
(* left out: no operation reads them.                                      *)
(***************************************************************************)
EXTENDS Integers, Sequences, FiniteSets, TLC

VARIABLES
    bust_cache,       \* LocationAnalyzer.bust_cache
    cache,            \* LocationAnalyzer.cache (in memory)
    cache_file,       \* contents of search_cache.json
    api_log,          \* contents of api_usage.log, one record per line
    pc,               \* "idle", or "attempt" inside the loop of _search_with_retry
    cur,              \* arguments and cache key of the current/last search call
    attempt,          \* loop variable of _search_with_retry
    ret,              \* value returned by the last completed search call
    outcome,          \* return path taken by the current/last search call
    trace,            \* history: what the provider answered to each attempt of this call
    slept,            \* history: delays slept by time.sleep in this call
    effects,          \* history: what the last attempt did, in the order of the code
    net_calls,        \* history: number of requests.get attempts of the run
    log_failures,     \* history: number of audit appends that failed
    faults,           \* history: number of file writes that failed
    last_write,       \* history: outcome of the last _save_cache of the search path
    calls,            \* history: number of search calls started
    stored,           \* history: per key, the value a response of this run stored
    radius_miles,     \* USASpendingAPI.radius_miles
    contract_cache,   \* USASpendingAPI.cache (in memory)
    contract_file,    \* contents of contract_cache.json
    contract_cur,     \* arguments and cache key of the last contract call, and
                      \* history: what the provider answered to it
    contract_ret,     \* value returned by the last contract call
    contract_outcome, \* return path taken by the last contract call
    contract_net,     \* history: number of requests.post calls of the run
    contract_calls,   \* history: number of contract calls made
    contract_stored,  \* history: per key, the value a response of this run stored
    placemark,        \* the placemark of the last analyze_contracts call
    analysis,         \* value returned by the last analyze_contracts call
    contract_results, \* LocationAnalyzer.contract_results
    locations,        \* LocationAnalyzer.locations
    max_results,      \* argument of the search_location_context call
    search_results,   \* local list of search_location_context
    context_ret,      \* value returned by search_location_context
    history,          \* history: return path of the search of each location
    key_in,           \* inputs given to the key functions (KeySpec)
    key_out,          \* keys computed from key_in (KeySpec)
    query_in,         \* location given to _generate_search_queries (QuerySpec),
                      \* and history: the words its name was written from
    query_out,        \* the queries generated for query_in (QuerySpec)
    records_in,       \* record list given to the aggregation (AnalysisSpec)
    analysis_out      \* what the aggregation made of records_in (AnalysisSpec)

vars == <<bust_cache, cache, cache_file, api_log, pc, cur, attempt, ret,
          outcome, trace, slept, effects, net_calls, log_failures, faults,
          last_write, calls, stored,
          radius_miles, contract_cache, contract_file, contract_cur,
          contract_ret, contract_outcome, contract_net, contract_calls,
          contract_stored, placemark, analysis, contract_results,
          locations, max_results, search_results, context_ret, history,
          key_in, key_out, query_in, query_out, records_in, analysis_out>>

search_vars == <<bust_cache, cache, cache_file, api_log, pc, cur, attempt,
                 ret, outcome, trace, slept, effects, net_calls, log_failures,
                 faults, last_write, calls, stored>>

contract_vars == <<radius_miles, contract_cache, contract_file, contract_cur,
                   contract_ret, contract_outcome, contract_net,
                   contract_calls, contract_stored>>

pipeline_vars == <<placemark, analysis, contract_results>>

context_vars == <<locations, max_results, search_results, context_ret, history>>

key_vars == <<key_in, key_out>>

query_vars == <<query_in, query_out>>

analysis_vars == <<records_in, analysis_out>>

-----------------------------------------------------------------------------
(* Bounds and program constants *)

\* Number of calls (search and contract together) made in one run.
MaxCalls == 2

\* Number of file writes (cache file, audit log) that fail in one run.
MaxFaults == 1

max_retries == 3

base_delay == 2

-----------------------------------------------------------------------------
(* Values *)

\* An optional value is <<>> (None, or a key that is not in the dict) or <<v>>.
None == <<>>

Some(v) == <<v>>

Get(d, field, default) == IF field \in DOMAIN d THEN d[field] ELSE default

Last(s) == s[Len(s)]

IsPrefix(s, t) == Len(s) <= Len(t) /\ SubSeq(t, 1, Len(s)) = s

NonDecreasing(s) == \A i \in 1..Len(s) : \A j \in i..Len(s) : s[i] <= s[j]

Abs(x) == IF x < 0 THEN -x ELSE x

\* The 4-decimal value a coordinate rounds to, in units of 0.0001 degree
\* (a coordinate counts thirds of a unit: x = 3n exactly, 3n-1 and 3n+1 near).
Round4(x) == IF x < 0 THEN -((Abs(x) + 1) \div 3) ELSE (x + 1) \div 3

-----------------------------------------------------------------------------
(* LocationAnalyzer._generate_search_queries.  A text is the sequence of its *)
(* characters *)

\* The characters str.split() takes for whitespace, of those used here.
Whitespace == {" ", "\t"}

UpperCase == <<"A", "B", "C", "D", "E", "F", "G", "H", "I", "J", "K", "L", "M",
               "N", "O", "P", "Q", "R", "S", "T", "U", "V", "W", "X", "Y", "Z">>

LowerCase == <<"a", "b", "c", "d", "e", "f", "g", "h", "i", "j", "k", "l", "m",
               "n", "o", "p", "q", "r", "s", "t", "u", "v", "w", "x", "y", "z">>

\* The lowercase letter of each uppercase letter.
ToLower ==
    [c \in {UpperCase[k] : k \in 1..Len(UpperCase)} |->
        LowerCase[CHOOSE k \in 1..Len(UpperCase) : UpperCase[k] = c]]

\* A lower() that changes nothing: the comparison is case-sensitive.
str_lower_nothing(w) == w

\* "w.lower()"
str_lower(w) ==
    [i \in 1..Len(w) |-> IF w[i] \in DOMAIN ToLower THEN ToLower[w[i]] ELSE w[i]]

\* "name.split()": the maximal runs of characters that are not whitespace.
RECURSIVE split(_)
split(text) ==
    IF text = <<>> THEN <<>>
    ELSE IF text[1] \in Whitespace THEN split(Tail(text))
    ELSE LET n == CHOOSE n \in 1..Len(text) :
                     /\ \A i \in 1..n : text[i] \notin Whitespace
                     /\ n = Len(text) \/ text[n + 1] \in Whitespace
         IN  <<SubSeq(text, 1, n)>> \o split(SubSeq(text, n + 1, Len(text)))

\* ['the', 'and', 'test', 'model', 'city']
Stopwords ==
    { <<"t", "h", "e">>, <<"a", "n", "d">>, <<"t", "e", "s", "t">>, <<"m", "o", "d", "e", "l">>, <<"c", "i", "t", "y">> }

\* "len(w) > 2 and w.lower() not in [...]"
IsMeaningful(w) == Len(w) > 2 /\ str_lower(w) \notin Stopwords

\* The list with the one query of a location.
_generate_search_queries(location) ==
    LET name == location.name
        words == SelectSeq(split(name), IsMeaningful)
        main_query == IF words # <<>>
                      THEN IF Len(words) >= 2
                           THEN words[1] \o <<" ">> \o words[2]
                           ELSE words[1]
                      ELSE name
    IN  <<main_query \o <<" ", "N", "e", "v", "a", "d", "a">>>>

-----------------------------------------------------------------------------
(* Inputs of the search path *)

ImminentDomain == <<"I", "m", "m", "i", "n", "e", "n", "t", " ", "D", "o", "m", "a", "i", "n">>

UnknownLocation == <<"U", "n", "k", "n", "o", "w", "n", " ", "L", "o", "c", "a", "t", "i", "o", "n">>

LocationNames == {ImminentDomain, UnknownLocation}

\* Two readings of one point, both rounding to (36.1700, -115.1400), and a
\* location whose geometry gave no coordinates.
Locations ==
    { [name |-> ImminentDomain, coordinates |-> Some([lat |-> 1085100, lon |-> -3454200])],
      [name |-> ImminentDomain, coordinates |-> Some([lat |-> 1085101, lon |-> -3454200])],
      [name |-> UnknownLocation, coordinates |-> None] }

\* The queries of these locations.
Queries == {_generate_search_queries(l)[1] : l \in Locations}

\* Entries of the provider's organic_results; any field may be missing.
RawResults ==
    << [title |-> "t1", link |-> "l1", snippet |-> "s1"],
       [title |-> "t2"] >>

\* What one requests.get of the search provider can give: a response with a
\* status and a body (its text, and its JSON when the text is JSON), or an
\* exception.  "meaning" says what the provider answered; the code never
\* reads it.
Replies ==
    { [kind |-> "response", status |-> 200, meaning |-> "results",
       json |-> [organic_results |-> RawResults]],
      [kind |-> "response", status |-> 200, meaning |-> "results",
       json |-> [search_metadata |-> "m"]],
      [kind |-> "response", status |-> 200, meaning |-> "failure",
       text |-> <<"<html>">>],
      [kind |-> "response", status |-> 500, meaning |-> "failure",
       text |-> <<"Internal", "Server", "Error">>, json |-> [error |-> "e"]],
      [kind |-> "response", status |-> 429, meaning |-> "quota",
       text |-> <<"Monthly", "Quota", "exceeded">>, json |-> [error |-> "q"]],
      [kind |-> "exception", meaning |-> "failure",
       text |-> <<"Connection", "timed", "out">>],
      [kind |-> "exception", meaning |-> "quota",
       text |-> <<"QUOTA", "check", "failed">>] }

\* The search calls of a run: the query built for a location, and the location
\* (the two readings of the one point that has coordinates).
Requests ==
    { r \in [query : Queries, location : Locations] :
        /\ r.query = _generate_search_queries(r.location)[1]
        /\ r.location.coordinates # None }

\* Outcome of writing a file: written, open() failed (file untouched), or the
\* write failed after open(..., 'w') had truncated the file.
WriteOutcomes == {"ok", "open_failed", "dump_failed"}

\* The outcomes a write can have once `failed` writes have failed in the run.
Writes(failed) == IF failed < MaxFaults THEN WriteOutcomes ELSE {"ok"}

\* An append to the audit log is written or fails.
LogOutcomes == {"ok", "failed"}

LogWrites(failed) == IF failed < MaxFaults THEN LogOutcomes ELSE {"ok"}

Failed(write) == IF write = "ok" THEN 0 ELSE 1

-----------------------------------------------------------------------------
(* LocationAnalyzer: helpers *)

\* str.lower() on the words that occur in Replies.
Lower(w) == CASE w = "Quota" -> "quota"
              [] w = "QUOTA" -> "quota"
              [] OTHER -> w

\* str() of an HTTP status.
StatusWord(status) == CASE status = 200 -> "200"
                        [] status = 429 -> "429"
                        [] status = 500 -> "500"
                        [] OTHER -> "status"

\* repr() of a float: one text per value.
FloatRepr(x) == <<"float", x>>

\* hashlib.md5(...).hexdigest(): one digest per key string, taken collision-free.
Md5(key_string) == <<"md5", key_string>>

_generate_cache_key(query, location) ==
    LET coords_str == IF location.coordinates # None
                      THEN <<"_", FloatRepr(location.coordinates[1].lat),
                             "_", FloatRepr(location.coordinates[1].lon)>>
                      ELSE <<>>
        key_string == <<query>> \o coords_str
    IN  Md5(key_string)

\* A key written by an earlier run for a location this run does not request.
OtherKey == Md5(<<<<"E", "l", "s", "e", "w", "h", "e", "r", "e", " ", "N", "e", "v", "a", "d", "a">>>>)

SearchKeys == {_generate_cache_key(q, l) : q \in Queries, l \in Locations} \cup {OtherKey}

EmptyCache == [k \in SearchKeys |-> None]

\* A file is readable (it holds a JSON mapping) or not (json.load raises).
File(store) == [readable |-> TRUE, store |-> store]

_load_cache(bust, file) ==
    IF bust THEN EmptyCache
    ELSE IF file.readable THEN file.store ELSE EmptyCache

\* A save that adds to the file instead of rewriting it: what the file holds
\* under a key stays, the other entries of the cache are added.
_save_cache_merges(file, c, write) ==
    CASE write = "ok" ->
            File([k \in DOMAIN c |->
                    IF file.readable /\ file.store[k] # None THEN file.store[k] ELSE c[k]])
      [] write = "open_failed" -> file
      [] OTHER -> [readable |-> FALSE, store |-> EmptyCache]

\* open(cache_file, 'w'); json.dump(cache): any exception is logged, not raised.
_save_cache(file, c, write) ==
    CASE write = "ok" -> File(c)
      [] write = "open_failed" -> file
      [] OTHER -> [readable |-> FALSE, store |-> EmptyCache]

\* The log file opened with 'w': the new line replaces the log.
_log_api_usage_truncates(log, query, success, write) ==
    IF write = "ok" THEN <<[query |-> query, success |-> success]>>
    ELSE log

\* One line appended to the log file; any exception is logged, not raised.
_log_api_usage(log, query, success, write) ==
    IF write = "ok" THEN Append(log, [query |-> query, success |-> success])
    ELSE log

\* The cache check with the flag inverted.
CacheLookup_flag_inverted(bust, c, k) == bust /\ c[k] # None

\* The cache check without the flag.
CacheLookup_ignores_flag(bust, c, k) == c[k] # None

\* The cache check by truthiness ("if self.cache.get(cache_key)").
CacheLookup_truthy(bust, c, k) == ~bust /\ c[k] # None /\ c[k] # Some(<<>>)

\* "if not self.bust_cache and cache_key in self.cache"
CacheLookup(bust, c, k) == ~bust /\ c[k] # None

\* The attempt without the status check.
AttemptError_ignores_status(reply) ==
    IF reply.kind = "exception" THEN reply.text
    ELSE IF "json" \notin DOMAIN reply THEN <<"Expecting", "value">>
    ELSE <<>>

\* The exception one attempt raises, as its text; <<>> when it raises none.
AttemptError(reply) ==
    IF reply.kind = "exception" THEN reply.text
    ELSE IF reply.status # 200
         THEN <<"Search", "API", "returned", "status", "code",
                StatusWord(reply.status)>> \o reply.text
    ELSE IF "json" \notin DOMAIN reply THEN <<"Expecting", "value">>
    ELSE <<>>

\* The reshaping left out: the provider's entry is cached as it came.
FormatResult_raw(result) == result

\* "{'title': ..., 'link': ..., 'body': result.get('snippet', '')}"
FormatResult(result) ==
    [title |-> Get(result, "title", ""),
     link  |-> Get(result, "link", ""),
     body  |-> Get(result, "snippet", "")]

formatted_results(reply) ==
    LET organic == Get(reply.json, "organic_results", <<>>)
    IN  [i \in 1..Len(organic) |-> FormatResult(organic[i])]

\* The quota test without lower().
IsQuota_case_sensitive(err) == \E i \in 1..Len(err) : err[i] = "quota"

\* '"quota" in str(e).lower()'
IsQuota(err) == \E i \in 1..Len(err) : Lower(err[i]) = "quota"

\* A backoff that shrinks: the exponent counts the attempts left.
delay_shrinking(n) == base_delay * (2 ^ (max_retries - n))

\* "self.base_delay * (2 ** attempt)"
delay(n) == base_delay * (2 ^ n)

\* How an attempt ends: "ok", "quota" or "retryable".
Classify(reply) ==
    LET err == AttemptError(reply)
    IN  IF err = <<>> THEN "ok"
        ELSE IF IsQuota(err) THEN "quota" ELSE "retryable"

-----------------------------------------------------------------------------
(* USASpendingAPI: inputs and helpers *)

\* radius_miles as Python holds it: tenths of a mile, and int or float
\* (argparse leaves the default 50 an int; "--search-radius 50" gives 50.0).
Radii ==
    { [tenths |-> 500, is_int |-> TRUE],
      [tenths |-> 500, is_int |-> FALSE],
      [tenths |-> 255, is_int |-> FALSE] }

\* The radius values a run of the model is started with.
RunRadii == { [tenths |-> 500, is_int |-> TRUE] }

ContractCoords ==
    { [lat |-> 1085100, lon |-> -3454200],
      [lat |-> 1085102, lon |-> -3454200] }

\* The placemarks of the KML file: two points, and one without a Point.
Placemarks ==
    { [name |-> "Site A", point |-> Some([lat |-> 1085100, lon |-> -3454200])],
      [name |-> "Site B", point |-> Some([lat |-> 1085102, lon |-> -3454200])],
      [name |-> "Range C", point |-> None] }

PlacemarkNames == {mark.name : mark \in Placemarks}

\* str() of the radius inside the f-string: 50 -> "50", 50.0 -> "50.0".
RadiusStr(radius) ==
    IF radius.is_int THEN <<radius.tenths \div 10>>
    ELSE <<radius.tenths \div 10, ".", radius.tenths % 10>>

\* format(x, ".4f"): the sign of x and the rounded magnitude in 0.0001 units
\* (a negative x keeps its sign when it rounds to zero: "-0.0000").
Fmt4(x) == [sign |-> IF x < 0 THEN "-" ELSE "", digits |-> (Abs(x) + 1) \div 3]

_get_cache_key(lat, lon, radius) ==
    <<Fmt4(lat), "_", Fmt4(lon), "_", RadiusStr(radius)>>

\* A key written by an earlier run for a point this run does not request.
OtherContractKey == _get_cache_key(1200000, -3000000, [tenths |-> 500, is_int |-> TRUE])

ContractKeys ==
    {_get_cache_key(c.lat, c.lon, r) : c \in ContractCoords, r \in RunRadii}
        \cup {OtherContractKey}

EmptyContractCache == [k \in ContractKeys |-> None]

Zip(a, b, c, d, e) == <<a, b, c, d, e>>

Contract(id, recipient, amount) ==
    ("Award ID" :> id) @@ ("Recipient Name" :> recipient) @@ ("Award Amount" :> amount)

WithZip(record, zip) == record @@ ("Place of Performance Zip5" :> zip)

\* Provider records: Las Vegas ZIP, New York ZIP, no ZIP, short ZIP.
RecLasVegas == WithZip(Contract("A1", "Acme", 500000), Zip("8", "9", "1", "0", "1"))
RecNewYork == WithZip(Contract("A2", "Bolt", 300000), Zip("1", "0", "0", "0", "1"))
RecNoZip == Contract("A3", "Core", 200000)
RecShortZip == WithZip(Contract("A4", "Dyne", 100000), <<"8", "9">>)

\* A Reno record the provider gives without an amount.
RecNoAmount ==
    WithZip(("Award ID" :> "A5") @@ ("Recipient Name" :> "Echo"), Zip("8", "9", "5", "0", "1"))

\* A rural record whose Description is JSON null (None; a text is Some(text)).
RecNullDescription ==
    WithZip(Contract("A6", "Flux", 50000), Zip("8", "9", "0", "0", "1"))
        @@ ("Description" :> None)

\* What the requests.post of the contract provider can give.  A body that is
\* not JSON makes response.json() raise the JSONDecodeError of the installed
\* requests: a RequestException (requests 2.27 and later) or a plain ValueError.
ContractReplies ==
    { [kind |-> "response", status |-> 200, meaning |-> "results",
       json |-> [results |-> <<RecNewYork, RecLasVegas, RecShortZip, RecNoZip>>]],
      [kind |-> "response", status |-> 200, meaning |-> "results",
       json |-> [page_metadata |-> "m"]],
      [kind |-> "response", status |-> 200, meaning |-> "results",
       json |-> [results |-> <<RecNoAmount>>]],
      [kind |-> "response", status |-> 200, meaning |-> "results",
       json |-> [results |-> <<RecNullDescription, RecNewYork>>]],
      [kind |-> "response", status |-> 500, meaning |-> "failure",
       text |-> <<"Internal", "Server", "Error">>, json |-> [detail |-> "e"]],
      [kind |-> "response", status |-> 200, meaning |-> "failure",
       text |-> <<"<html>">>, decode_error |-> "RequestException"],
      [kind |-> "response", status |-> 200, meaning |-> "failure",
       text |-> <<"<html>">>, decode_error |-> "ValueError"],
      [kind |-> "exception", meaning |-> "failure",
       text |-> <<"Connection", "timed", "out">>] }

ZipPrefixes ==
    { <<"8", "9", "0">>, <<"8", "9", "1">>, <<"8", "9", "3">>,
      <<"8", "9", "4">>, <<"8", "9", "5">>, <<"8", "9", "9">> }

\* The filter without the allow-list: any record with a ZIP is kept.
KeepsRecord_any_zip(result) ==
    Get(result, "Place of Performance Zip5", <<>>) # <<>>

\* Whether the filter loop keeps a provider record.
KeepsRecord(result) ==
    LET perf_zip == Get(result, "Place of Performance Zip5", <<>>)
    IN  /\ perf_zip # <<>>
        /\ Len(perf_zip) >= 3
        /\ SubSeq(perf_zip, 1, 3) \in ZipPrefixes

filtered_results(all_results) == SelectSeq(all_results, KeepsRecord)

\* Whether the logging of the kept records raises: the descriptions of the
\* first three are stripped, and a null description has no strip().
LoggingRaises(filtered) ==
    \E i \in 1..Len(filtered) :
        /\ i <= 3
        /\ Get(filtered[i], "Description", Some("")) = None

\* USASpendingAPI._load_cache: the cache read from the file; when the file is
\* missing or not JSON the cache is {} and is written out at once.
contract_load_cache(file) ==
    IF file.readable THEN [cache |-> file.store, file |-> file]
    ELSE [cache |-> EmptyContractCache, file |-> File(EmptyContractCache)]

\* USASpendingAPI._save_cache: no exception is caught here.
contract_save_cache(file, c, write) ==
    CASE write = "ok" -> File(c)
      [] write = "open_failed" -> file
      [] OTHER -> [readable |-> FALSE, store |-> EmptyContractCache]

\* "if not bust_cache and cache_key in self.cache"
ContractCacheLookup(bust, c, k) == ~bust /\ c[k] # None

-----------------------------------------------------------------------------
(* USASpendingAPI.analyze_contracts: the pandas aggregation *)

\* Recipient names, in the order in which pandas sorts them.
Recipients == <<"Acme", "Bolt", "Core", "Dyne", "Echo", "Flux">>

\* df[column] raises KeyError when no record has the column.
HasColumn(contracts, column) ==
    \E i \in 1..Len(contracts) : column \in DOMAIN contracts[i]

\* Series.sum(): the cells present are added, a missing cell is skipped.
RECURSIVE SeriesSum(_)
SeriesSum(contracts) ==
    IF contracts = <<>> THEN 0
    ELSE Get(Head(contracts), "Award Amount", 0) + SeriesSum(Tail(contracts))

\* The records of one recipient.
GroupOf(contracts, name) ==
    SelectSeq(contracts, LAMBDA r : /\ "Recipient Name" \in DOMAIN r
                                    /\ r["Recipient Name"] = name)

\* groupby("Recipient Name")["Award Amount"].sum(): one row per recipient
\* present, rows sorted by recipient name (sort=True), records without a
\* recipient dropped.
groupby_sum(contracts) ==
    LET named == SelectSeq(Recipients, LAMBDA n : GroupOf(contracts, n) # <<>>)
    IN  [i \in 1..Len(named) |->
            [name |-> named[i], total |-> SeriesSum(GroupOf(contracts, named[i]))]]

\* The series without its i-th row.
WithoutRow(series, i) ==
    SubSeq(series, 1, i - 1) \o SubSeq(series, i + 1, Len(series))

\* The n smallest rows, in ascending order.
RECURSIVE nsmallest(_, _)
nsmallest(series, n) ==
    IF n = 0 \/ series = <<>> THEN <<>>
    ELSE LET i == CHOOSE i \in 1..Len(series) :
                    /\ \A j \in 1..Len(series) : series[j].total >= series[i].total
                    /\ \A j \in 1..(i - 1) : series[j].total > series[i].total
         IN  <<series[i]>> \o nsmallest(WithoutRow(series, i), n - 1)

\* Series.nlargest(n), keep='first': the n largest rows in descending order,
\* rows of equal value in the order they have in the series.
RECURSIVE nlargest(_, _)
nlargest(series, n) ==
    IF n = 0 \/ series = <<>> THEN <<>>
    ELSE LET i == CHOOSE i \in 1..Len(series) :
                    /\ \A j \in 1..Len(series) : series[j].total <= series[i].total
                    /\ \A j \in 1..(i - 1) : series[j].total < series[i].total
         IN  <<series[i]>> \o nlargest(WithoutRow(series, i), n - 1)

\* The aggregation that takes an empty list for any other.
USASpendingAPI_analyze_contracts_no_empty_case(contracts) ==
    IF ~HasColumn(contracts, "Award Amount")
    THEN [raised |-> "KeyError", column |-> "Award Amount"]
    ELSE [total_contracts |-> Len(contracts),
          total_value |-> SeriesSum(contracts),
          top_contractors |-> nlargest(groupby_sum(contracts), 5),
          summary |-> <<"Found", Len(contracts), "contracts worth", SeriesSum(contracts)>>]

\* USASpendingAPI.analyze_contracts: the analysis returned, or the exception
\* raised.  top_contractors is the dict as its sequence of items.
USASpendingAPI_analyze_contracts(contracts) ==
    IF contracts = <<>>
    THEN [total_contracts |-> 0,
          total_value |-> 0,
          top_contractors |-> <<>>,
          summary |-> <<"No contracts found in this area.">>]
    ELSE IF ~HasColumn(contracts, "Award Amount")
    THEN [raised |-> "KeyError", column |-> "Award Amount"]
    ELSE IF ~HasColumn(contracts, "Recipient Name")
    THEN [raised |-> "KeyError", column |-> "Recipient Name"]
    ELSE [total_contracts |-> Len(contracts),
          total_value |-> SeriesSum(contracts),
          top_contractors |-> nlargest(groupby_sum(contracts), 5),
          summary |-> <<"Found", Len(contracts), "contracts worth", SeriesSum(contracts)>>]

-----------------------------------------------------------------------------
(* Initial state: the two objects after construction *)

Loc1 == CHOOSE l \in Locations : l.coordinates = Some([lat |-> 1085100, lon |-> -3454200])

\* What search_cache.json holds when the run starts.
InitialFiles ==
    { File(EmptyCache),
      File([EmptyCache EXCEPT ![_generate_cache_key(_generate_search_queries(Loc1)[1], Loc1)] =
                Some(<<FormatResult(RawResults[2])>>),
                              ![OtherKey] = Some(<<>>)]) }

\* What contract_cache.json holds when the run starts.
InitialContractFiles ==
    { File([EmptyContractCache EXCEPT
                ![_get_cache_key(1085100, -3454200, [tenths |-> 500, is_int |-> TRUE])] =
                    Some(<<RecLasVegas>>),
                ![OtherContractKey] = Some(<<>>)]),
      [readable |-> FALSE, store |-> EmptyContractCache] }

NoCall == [query |-> <<>>, location |-> [name |-> <<>>, coordinates |-> None], cache_key |-> OtherKey]

NoContractCall ==
    [latitude |-> 0, longitude |-> 0, cache_key |-> OtherContractKey,
     answer |-> "none", provided |-> <<>>]

NoPlacemark == [name |-> "", point |-> None]

NoKeys == <<>>

NoQuery == [location |-> [name |-> <<>>, coordinates |-> None], words |-> <<>>]

InitSearch ==
    /\ bust_cache \in BOOLEAN
    /\ cache_file \in InitialFiles
    /\ cache = _load_cache(bust_cache, cache_file)
    /\ api_log = <<>>
    /\ pc = "idle"
    /\ cur = NoCall
    /\ attempt = 0
    /\ ret = None
    /\ outcome = "none"
    /\ trace = <<>>
    /\ slept = <<>>
    /\ effects = <<>>
    /\ net_calls = 0
    /\ log_failures = 0
    /\ faults = 0
    /\ last_write = "none"
    /\ calls = 0
    /\ stored = EmptyCache

InitContract ==
    /\ radius_miles \in RunRadii
    /\ \E file \in InitialContractFiles :
          /\ contract_cache = contract_load_cache(file).cache
          /\ contract_file = contract_load_cache(file).file
    /\ contract_cur = NoContractCall
    /\ contract_ret = None
    /\ contract_outcome = "none"
    /\ contract_net = 0
    /\ contract_calls = 0
    /\ contract_stored = EmptyContractCache

\* LocationAnalyzer.contract_results is empty and no placemark was analysed.
InitPipeline ==
    /\ placemark = NoPlacemark
    /\ analysis = None
    /\ contract_results = [name \in PlacemarkNames |-> None]

\* No search_location_context call is under way.
InitContext ==
    /\ locations = <<>>
    /\ max_results = 5
    /\ search_results = <<>>
    /\ context_ret = None
    /\ history = <<>>

\* No query generation on its own is under way.
InitQuery ==
    /\ query_in = NoQuery
    /\ query_out = None

\* No aggregation on its own is under way.
InitAnalysis ==
    /\ records_in = <<>>
    /\ analysis_out = None

Init ==
    /\ InitSearch
    /\ InitContract
    /\ InitPipeline
    /\ InitContext
    /\ InitQuery
    /\ key_in = NoKeys
    /\ key_out = NoKeys
    /\ InitAnalysis

-----------------------------------------------------------------------------
(* LocationAnalyzer._search_with_retry *)

\* Entry of the call: the key, and the cache check that may return at once.
search_start(query, location) ==
    LET cache_key == _generate_cache_key(query, location)
    IN  /\ pc = "idle"
        /\ calls + contract_calls < MaxCalls
        /\ calls' = calls + 1
        /\ cur' = [query |-> query, location |-> location, cache_key |-> cache_key]
        /\ attempt' = 0
        /\ trace' = <<>>
        /\ slept' = <<>>
        /\ effects' = <<>>
        /\ IF CacheLookup(bust_cache, cache, cache_key)
           THEN /\ ret' = cache[cache_key]
                /\ outcome' = "hit"
                /\ pc' = "idle"
           ELSE /\ ret' = None
                /\ outcome' = "running"
                /\ pc' = "attempt"
        /\ UNCHANGED <<bust_cache, cache, cache_file, api_log, net_calls,
                       log_failures, faults, last_write, stored>>
        /\ UNCHANGED <<contract_vars, pipeline_vars, key_vars, query_vars, analysis_vars>>

\* The successful iteration with a _save_cache that lets its exception out:
\* the handler of the loop takes a failed save for a failed attempt.
attempt_succeeds_save_raises(reply, write, log_write) ==
    /\ pc = "attempt"
    /\ Classify(reply) = "ok"
    /\ LET results == formatted_results(reply)
           cache1 == [cache EXCEPT ![cur.cache_key] = Some(results)]
       IN  /\ cache' = cache1
           /\ cache_file' = _save_cache(cache_file, cache1, write)
           /\ last_write' = write
           /\ stored' = [stored EXCEPT ![cur.cache_key] = Some(results)]
           /\ IF write = "ok"
              THEN /\ api_log' = _log_api_usage(api_log, cur.query, TRUE, log_write)
                   /\ ret' = Some(results)
                   /\ outcome' = "success"
                   /\ pc' = "idle"
                   /\ effects' = <<"request", "format", "cache", "save", "log", "return">>
                   /\ UNCHANGED <<attempt, slept>>
              ELSE /\ api_log' = _log_api_usage(api_log, cur.query, FALSE, log_write)
                   /\ effects' = <<"request", "format", "cache", "save", "log", "sleep">>
                   /\ slept' = Append(slept, delay(attempt))
                   /\ attempt' = attempt + 1
                   /\ IF attempt + 1 < max_retries
                      THEN /\ pc' = "attempt"
                           /\ UNCHANGED <<ret, outcome>>
                      ELSE /\ pc' = "idle"
                           /\ ret' = Some(<<>>)
                           /\ outcome' = "exhausted"
    /\ log_failures' = log_failures + Failed(log_write)
    /\ faults' = faults + Failed(write) + Failed(log_write)
    /\ net_calls' = net_calls + 1
    /\ trace' = Append(trace, reply.meaning)
    /\ UNCHANGED <<bust_cache, cur, calls>>
    /\ UNCHANGED <<contract_vars, pipeline_vars, key_vars, query_vars, analysis_vars>>

\* One iteration of the loop whose request succeeds: format, cache, save, log,
\* return.
attempt_succeeds(reply, write, log_write) ==
    /\ pc = "attempt"
    /\ Classify(reply) = "ok"
    /\ LET results == formatted_results(reply)
           cache1 == [cache EXCEPT ![cur.cache_key] = Some(results)]
       IN  /\ cache' = cache1
           /\ cache_file' = _save_cache(cache_file, cache1, write)
           /\ last_write' = write
           /\ api_log' = _log_api_usage(api_log, cur.query, TRUE, log_write)
           /\ ret' = Some(results)
           /\ stored' = [stored EXCEPT ![cur.cache_key] = Some(results)]
    /\ log_failures' = log_failures + Failed(log_write)
    /\ faults' = faults + Failed(write) + Failed(log_write)
    /\ net_calls' = net_calls + 1
    /\ trace' = Append(trace, reply.meaning)
    /\ outcome' = "success"
    /\ pc' = "idle"
    /\ effects' = <<"request", "format", "cache", "save", "log", "return">>
    /\ UNCHANGED <<bust_cache, cur, attempt, slept, calls>>
    /\ UNCHANGED <<contract_vars, pipeline_vars, key_vars, query_vars, analysis_vars>>

\* One iteration whose request fails with "quota" in the error text: log and
\* return [] at once.
attempt_quota(reply, log_write) ==
    /\ pc = "attempt"
    /\ Classify(reply) = "quota"
    /\ api_log' = _log_api_usage(api_log, cur.query, FALSE, log_write)
    /\ log_failures' = log_failures + Failed(log_write)
    /\ faults' = faults + Failed(log_write)
    /\ net_calls' = net_calls + 1
    /\ trace' = Append(trace, reply.meaning)
    /\ ret' = Some(<<>>)
    /\ outcome' = "quota"
    /\ pc' = "idle"
    /\ effects' = <<"request", "log", "return">>
    /\ UNCHANGED <<bust_cache, cache, cache_file, last_write, cur, attempt,
                   slept, calls, stored>>
    /\ UNCHANGED <<contract_vars, pipeline_vars, key_vars, query_vars, analysis_vars>>

\* One iteration whose request fails otherwise: log, sleep, continue; after
\* the last iteration the loop ends and the call returns [].
attempt_retryable(reply, log_write) ==
    /\ pc = "attempt"
    /\ Classify(reply) = "retryable"
    /\ api_log' = _log_api_usage(api_log, cur.query, FALSE, log_write)
    /\ log_failures' = log_failures + Failed(log_write)
    /\ faults' = faults + Failed(log_write)
    /\ net_calls' = net_calls + 1
    /\ trace' = Append(trace, reply.meaning)
    /\ slept' = Append(slept, delay(attempt))
    /\ effects' = <<"request", "log", "sleep">>
    /\ attempt' = attempt + 1
    /\ IF attempt + 1 < max_retries
       THEN /\ pc' = "attempt"
            /\ UNCHANGED <<ret, outcome>>
       ELSE /\ pc' = "idle"
            /\ ret' = Some(<<>>)
            /\ outcome' = "exhausted"
    /\ UNCHANGED <<bust_cache, cache, cache_file, last_write, cur, calls, stored>>
    /\ UNCHANGED <<contract_vars, pipeline_vars, key_vars, query_vars, analysis_vars>>

-----------------------------------------------------------------------------
(* USASpendingAPI.search_contracts_by_location, called with the analyzer's   *)
(* bust_cache flag.  The state lookup before the request changes no state.   *)

search_contracts_by_location(latitude, longitude, bust, reply, write) ==
    LET cache_key == _get_cache_key(latitude, longitude, radius_miles)
        all_results == IF "json" \in DOMAIN reply
                       THEN Get(reply.json, "results", <<>>) ELSE <<>>
        filtered == filtered_results(all_results)
        cache1 == [contract_cache EXCEPT ![cache_key] = Some(filtered)]
        hit == ContractCacheLookup(bust, contract_cache, cache_key)
        answered == ~hit /\ reply.kind = "response" /\ reply.status = 200
        decode_error == IF reply.kind = "response" /\ "json" \notin DOMAIN reply
                        THEN reply.decode_error ELSE "none"
    IN  /\ pc = "idle"
        /\ calls + contract_calls < MaxCalls
        /\ contract_calls' = contract_calls + 1
        /\ contract_cur' = [latitude |-> latitude, longitude |-> longitude,
                            cache_key |-> cache_key,
                            answer |-> IF hit THEN "none" ELSE reply.meaning,
                            provided |-> IF answered THEN all_results ELSE <<>>]
        /\ IF hit
           THEN /\ contract_ret' = contract_cache[cache_key]
                /\ contract_outcome' = "hit"
                /\ UNCHANGED <<contract_cache, contract_file, contract_net,
                               contract_stored, faults>>
           ELSE /\ contract_net' = contract_net + 1
                /\ IF reply.kind = "exception"
                   THEN /\ contract_ret' = Some(<<>>)
                        /\ contract_outcome' = "request_error"
                        /\ UNCHANGED <<contract_cache, contract_file,
                                       contract_stored, faults>>
                   ELSE IF reply.status # 200
                   THEN /\ contract_ret' = Some(<<>>)
                        /\ contract_outcome' = "non200"
                        /\ UNCHANGED <<contract_cache, contract_file,
                                       contract_stored, faults>>
                   ELSE IF decode_error = "RequestException"
                   THEN /\ contract_ret' = Some(<<>>)
                        /\ contract_outcome' = "request_error"
                        /\ UNCHANGED <<contract_cache, contract_file,
                                       contract_stored, faults>>
                   ELSE IF decode_error = "ValueError" \/ LoggingRaises(filtered)
                   THEN /\ contract_ret' = None
                        /\ contract_outcome' = "crashed"
                        /\ UNCHANGED <<contract_cache, contract_file,
                                       contract_stored, faults>>
                   ELSE /\ contract_cache' = cache1
                        /\ contract_stored' =
                              [contract_stored EXCEPT ![cache_key] = Some(filtered)]
                        /\ contract_file' =
                              contract_save_cache(contract_file, cache1, write)
                        /\ faults' = faults + Failed(write)
                        /\ IF write = "ok"
                           THEN /\ contract_ret' = Some(filtered)
                                /\ contract_outcome' = "success"
                           ELSE /\ contract_ret' = None
                                /\ contract_outcome' = "raised"
        /\ UNCHANGED radius_miles
        /\ UNCHANGED <<bust_cache, cache, cache_file, api_log, pc, cur, attempt,
                       ret, outcome, trace, slept, effects, net_calls,
                       log_failures, last_write, calls, stored>>
        /\ UNCHANGED <<key_vars, query_vars, analysis_vars>>

-----------------------------------------------------------------------------
(* LocationAnalyzer.analyze_contracts: coordinates, contract search,         *)
(* aggregation, contract_results; any exception becomes an error summary.    *)

\* The dict of the except branch.
ErrorSummary(error) ==
    [error |-> error,
     total_contracts |-> 0,
     total_value |-> 0,
     top_contractors |-> <<>>,
     summary |-> <<"Error analyzing contracts for this location.">>]

\* The method with the store moved after the handler: an error summary is
\* recorded in contract_results like an analysis.
analyze_contracts_records_errors(mark, reply, write) ==
    /\ placemark' = mark
    /\ IF mark.point = None
       THEN /\ pc = "idle"
            /\ analysis' = Some(ErrorSummary(<<"AttributeError", "Point">>))
            /\ contract_results' =
                  [contract_results EXCEPT ![mark.name] = analysis']
            /\ UNCHANGED <<search_vars, contract_vars, key_vars, query_vars, analysis_vars>>
       ELSE /\ search_contracts_by_location(mark.point[1].lat, mark.point[1].lon,
                                            bust_cache, reply, write)
            /\ IF contract_ret' = None
               THEN analysis' = Some(ErrorSummary(<<contract_outcome'>>))
               ELSE LET aggregate == USASpendingAPI_analyze_contracts(contract_ret'[1])
                    IN  IF "raised" \in DOMAIN aggregate
                        THEN analysis' =
                                Some(ErrorSummary(<<aggregate.raised, aggregate.column>>))
                        ELSE analysis' = Some(aggregate)
            /\ contract_results' =
                  [contract_results EXCEPT ![mark.name] = analysis']

analyze_contracts(mark, reply, write) ==
    /\ placemark' = mark
    /\ IF mark.point = None
       THEN /\ pc = "idle"
            /\ analysis' = Some(ErrorSummary(<<"AttributeError", "Point">>))
            /\ UNCHANGED <<contract_results, search_vars, contract_vars,
                           key_vars, query_vars, analysis_vars>>
       ELSE /\ search_contracts_by_location(mark.point[1].lat, mark.point[1].lon,
                                            bust_cache, reply, write)
            /\ IF contract_ret' = None
               THEN /\ analysis' = Some(ErrorSummary(<<contract_outcome'>>))
                    /\ UNCHANGED contract_results
               ELSE LET aggregate == USASpendingAPI_analyze_contracts(contract_ret'[1])
                    IN  IF "raised" \in DOMAIN aggregate
                        THEN /\ analysis' =
                                  Some(ErrorSummary(<<aggregate.raised, aggregate.column>>))
                             /\ UNCHANGED contract_results
                        ELSE /\ analysis' = Some(aggregate)
                             /\ contract_results' =
                                  [contract_results EXCEPT ![mark.name] = Some(aggregate)]

-----------------------------------------------------------------------------

Next ==
    \/ \E r \in Requests :
          /\ search_start(r.query, r.location)
          /\ UNCHANGED context_vars
    \/ \E reply \in Replies, write \in Writes(faults) :
          \E log_write \in LogWrites(faults + Failed(write)) :
             /\ attempt_succeeds(reply, write, log_write)
             /\ UNCHANGED context_vars
    \/ \E reply \in Replies, log_write \in LogWrites(faults) :
          /\ attempt_quota(reply, log_write)
          /\ UNCHANGED context_vars
    \/ \E reply \in Replies, log_write \in LogWrites(faults) :
          /\ attempt_retryable(reply, log_write)
          /\ UNCHANGED context_vars
    \/ \E c \in ContractCoords, reply \in ContractReplies, write \in Writes(faults) :
          /\ search_contracts_by_location(c.lat, c.lon, bust_cache, reply, write)
          /\ UNCHANGED <<pipeline_vars, context_vars>>

Spec == Init /\ [][Next]_vars

-----------------------------------------------------------------------------
(* The contract analysis of a run: analyze_contracts for placemark after     *)
(* placemark, as main calls it *)

PipelineNext ==
    \E mark \in Placemarks, reply \in ContractReplies, write \in Writes(faults) :
        /\ analyze_contracts(mark, reply, write)
        /\ UNCHANGED context_vars

PipelineSpec == Init /\ [][PipelineNext]_vars

-----------------------------------------------------------------------------
(* LocationAnalyzer.search_location_context: one search and one entry per    *)
(* location of self.locations, then the list is returned *)

\* The lists self.locations can hold: a location with coordinates and one
\* without, in any order and number.
LocationLists ==
    LET pool == {l \in Locations : l.coordinates \in {None, Loc1.coordinates}}
    IN  UNION { [1..n -> pool] : n \in 0..MaxCalls }

\* No truncation: the whole list is emitted.
Take_all(results, n) == results

\* "results[:max_results]"
Take(results, n) == SubSeq(results, 1, IF Len(results) < n THEN Len(results) ELSE n)

\* The loop that leaves out a location whose search gave nothing.
AppendEntry_skips_empty(entries, location, results, n) ==
    IF results = <<>> THEN entries
    ELSE Append(entries, [location |-> location.name, results |-> Take(results, n)])

\* "search_results.append({'location': ..., 'results': results[:max_results]})"
AppendEntry(entries, location, results, n) ==
    Append(entries, [location |-> location.name, results |-> Take(results, n)])

ContextInit ==
    /\ InitSearch
    /\ ~bust_cache
    /\ cache_file = File(EmptyCache)
    /\ InitContract
    /\ contract_file.store = EmptyContractCache
    /\ InitPipeline
    /\ locations \in LocationLists
    /\ max_results \in {1, 5}
    /\ search_results = <<>>
    /\ context_ret = None
    /\ history = <<>>
    /\ InitQuery
    /\ key_in = NoKeys
    /\ key_out = NoKeys
    /\ InitAnalysis

\* What the loop body does once _search_with_retry has returned.
context_collect ==
    IF pc' = "idle"
    THEN /\ search_results' = AppendEntry(search_results, cur'.location, ret'[1],
                                          max_results)
         /\ history' = Append(history, outcome')
         /\ UNCHANGED <<locations, max_results, context_ret>>
    ELSE UNCHANGED context_vars

\* The loop takes the next location and calls _search_with_retry.
context_search ==
    /\ context_ret = None
    /\ Len(history) < Len(locations)
    /\ LET location == locations[Len(history) + 1]
       IN  search_start(_generate_search_queries(location)[1], location)
    /\ context_collect

\* "return search_results"
context_return ==
    /\ pc = "idle"
    /\ context_ret = None
    /\ Len(history) = Len(locations)
    /\ context_ret' = Some(search_results)
    /\ UNCHANGED <<locations, max_results, search_results, history>>
    /\ UNCHANGED <<search_vars, contract_vars, pipeline_vars, key_vars, query_vars, analysis_vars>>

\* search_location_context is called again on the same object, with another
\* max_results.
context_again ==
    /\ context_ret # None
    /\ calls + contract_calls < MaxCalls
    /\ max_results' \in {1, 5} \ {max_results}
    /\ search_results' = <<>>
    /\ context_ret' = None
    /\ history' = <<>>
    /\ UNCHANGED locations
    /\ UNCHANGED <<search_vars, contract_vars, pipeline_vars, key_vars, query_vars, analysis_vars>>

ContextNext ==
    \/ context_search
    \/ \E reply \in Replies, write \in Writes(faults) :
          \E log_write \in LogWrites(faults + Failed(write)) :
             /\ attempt_succeeds(reply, write, log_write)
             /\ context_collect
    \/ \E reply \in Replies, log_write \in LogWrites(faults) :
          /\ attempt_quota(reply, log_write)
          /\ context_collect
    \/ \E reply \in Replies, log_write \in LogWrites(faults) :
          /\ attempt_retryable(reply, log_write)
          /\ context_collect
    \/ context_return
    \/ context_again

ContextSpec == ContextInit /\ [][ContextNext]_vars

-----------------------------------------------------------------------------
(* The key functions on their own: a pair of inputs, then their keys *)

KeyLats == {-1, 0, 1, 2, 1085100, 1085101}

KeyLons == {-3454200, -3454201}

KeyInputs == [lat : KeyLats, lon : KeyLons, radius : Radii]

KeyInit ==
    /\ InitSearch
    /\ ~bust_cache
    /\ cache_file = File(EmptyCache)
    /\ InitContract
    /\ contract_file.store = EmptyContractCache
    /\ InitPipeline
    /\ InitContext
    /\ InitQuery
    /\ key_in \in KeyInputs \X KeyInputs
    /\ key_out = NoKeys
    /\ InitAnalysis

\* USASpendingAPI._get_cache_key applied to both inputs.
apply_get_cache_key ==
    /\ key_out = NoKeys
    /\ key_out' = <<_get_cache_key(key_in[1].lat, key_in[1].lon, key_in[1].radius),
                    _get_cache_key(key_in[2].lat, key_in[2].lon, key_in[2].radius)>>
    /\ UNCHANGED <<search_vars, contract_vars, pipeline_vars, context_vars,
                   key_in, query_vars, analysis_vars>>

KeyNext == apply_get_cache_key

KeySpec == KeyInit /\ [][KeyNext]_vars

-----------------------------------------------------------------------------
(* The query generation on its own: a location, then its queries *)

\* Number of words in a location name.
MaxWords == 3

\* Words of location names: stopwords in several spellings, a word of two
\* letters, and words that count.
NameWords ==
    { <<"T", "h", "e">>,
      <<"a", "n", "d">>,
      <<"T", "E", "S", "T">>,
      <<"M", "o", "d", "e", "l">>,
      <<"c", "i", "t", "y">>,
      <<"o", "f">>,
      <<"O", "l", "d">>,
      <<"M", "i", "l", "l">>,
      <<"E", "l", "y">> }

\* What separates two words of a name: a space, or a run of whitespace.
Separators == { <<" ">>, <<" ", "\t">> }

\* The name written from its words and the separators between them.
RECURSIVE Written(_, _)
Written(words, seps) ==
    IF Len(words) = 1 THEN words[1]
    ELSE words[1] \o seps[1] \o Written(Tail(words), Tail(seps))

\* Locations whose names have 1 to MaxWords words, each with its words; the
\* first two words are separated in either way, the others by a space.
QueryInputs ==
    UNION { { [location |->
                 [name |-> Written(ws, [i \in 1..(n - 1) |->
                                           IF i = 1 THEN sp ELSE <<" ">>]),
                  coordinates |-> None],
               words |-> ws] :
                 ws \in [1..n -> NameWords], sp \in Separators } :
            n \in 1..MaxWords }

QueryInit ==
    /\ InitSearch
    /\ ~bust_cache
    /\ cache_file = File(EmptyCache)
    /\ InitContract
    /\ contract_file.store = EmptyContractCache
    /\ InitPipeline
    /\ InitContext
    /\ key_in = NoKeys
    /\ key_out = NoKeys
    /\ query_in \in QueryInputs
    /\ query_out = None
    /\ InitAnalysis

\* _generate_search_queries applied to the location.
apply_generate_search_queries ==
    /\ query_out = None
    /\ query_out' = Some(_generate_search_queries(query_in.location))
    /\ UNCHANGED <<search_vars, contract_vars, pipeline_vars, context_vars,
                   key_vars, query_in, analysis_vars>>

QueryNext == apply_generate_search_queries

QuerySpec == QueryInit /\ [][QueryNext]_vars

-----------------------------------------------------------------------------
(* The aggregation on its own: a record list, then its analysis *)

MaxRecords == 3

Amounts == {100, 200}

\* Well-formed provider records, and one without a recipient.
AnalysisRecords ==
    { Contract("A", Recipients[i], a) : i \in 1..Len(Recipients), a \in Amounts }
        \cup { ("Award ID" :> "A") @@ ("Award Amount" :> 200) }

\* Lists with one record for each recipient, in any order and with any
\* amounts: more recipients than top_contractors holds.
OnePerRecipient ==
    { [i \in 1..Len(Recipients) |-> Contract("A", Recipients[order[i]], amount[i])] :
        order \in Permutations(1..Len(Recipients)),
        amount \in [1..Len(Recipients) -> Amounts] }

\* Lists without the amount column or without the recipient column.
ColumnlessLists ==
    { <<("Award ID" :> "A") @@ ("Recipient Name" :> "Acme")>>,
      <<("Award ID" :> "A") @@ ("Award Amount" :> 100)>> }

RecordLists ==
    UNION { [1..n -> AnalysisRecords] : n \in 0..MaxRecords }
        \cup OnePerRecipient \cup ColumnlessLists

AnalysisInit ==
    /\ InitSearch
    /\ ~bust_cache
    /\ cache_file = File(EmptyCache)
    /\ InitContract
    /\ contract_file.store = EmptyContractCache
    /\ InitPipeline
    /\ InitContext
    /\ InitQuery
    /\ key_in = NoKeys
    /\ key_out = NoKeys
    /\ records_in \in RecordLists
    /\ analysis_out = None

\* USASpendingAPI.analyze_contracts applied to the record list.
apply_analyze_contracts ==
    /\ analysis_out = None
    /\ analysis_out' = Some(USASpendingAPI_analyze_contracts(records_in))
    /\ UNCHANGED <<search_vars, contract_vars, pipeline_vars, context_vars,
                   key_vars, query_vars, records_in>>

AnalysisNext == apply_analyze_contracts

AnalysisSpec == AnalysisInit /\ [][AnalysisNext]_vars

-----------------------------------------------------------------------------
(* Properties *)

\* A search call starts in this step.
SearchCalled == calls' = calls + 1

\* A contract call is made in this step.
ContractCalled == contract_calls' = contract_calls + 1

\* A network attempt of the search path is made in this step.
Attempted == net_calls' = net_calls + 1

\* C1: with bust-cache off, a call whose key is already in the cache returns
\* exactly the cached value and makes no network attempt, no audit-log append,
\* no backoff delay and no cache write (search path and contract path).
C1_CacheHitReturnsCachedValue ==
    [][ /\ (SearchCalled /\ ~bust_cache /\ cache[cur'.cache_key] # None) =>
              /\ pc' = "idle"
              /\ ret' = cache[cur'.cache_key]
              /\ trace' = <<>>
              /\ slept' = <<>>
              /\ UNCHANGED <<cache, cache_file, api_log, net_calls>>
        /\ (ContractCalled /\ ~bust_cache
              /\ contract_cache[contract_cur'.cache_key] # None) =>
              /\ contract_ret' = contract_cache[contract_cur'.cache_key]
              /\ UNCHANGED <<contract_cache, contract_file, contract_net, api_log>>
      ]_vars

\* A state in which both a search call and a contract call were served from
\* the cache.
C1_Witness ==
    /\ ~bust_cache
    /\ outcome = "hit" /\ ret # None /\ net_calls = 0
    /\ contract_outcome = "hit" /\ contract_ret # None /\ contract_net = 0

\* C2: on a miss, when every attempt fails with a retryable error, the call
\* makes exactly max_retries attempts, its delays are non-decreasing, and it
\* returns the empty list.
C2_ExhaustedAfterMaxRetries ==
    (pc = "idle" /\ trace # <<>> /\ \A i \in 1..Len(trace) : trace[i] = "failure") =>
        /\ Len(trace) = max_retries
        /\ NonDecreasing(slept)
        /\ ret = Some(<<>>)

C2_Witness ==
    /\ outcome = "exhausted" /\ pc = "idle"
    /\ Len(trace) = 3 /\ Len(slept) >= 2 /\ slept[1] < slept[2]

\* C3: an attempt whose error text indicates a quota condition ends the call:
\* the empty list is returned with no delay after it and no further attempt,
\* whichever attempt it is.
C3_QuotaIsTerminal ==
    \A i \in 1..Len(trace) :
        trace[i] = "quota" =>
            /\ i = Len(trace)
            /\ pc = "idle"
            /\ ret = Some(<<>>)
            /\ Len(slept) = i - 1

\* A quota error on the third attempt.
C3_Witness ==
    /\ Len(trace) = 3 /\ trace[3] = "quota" /\ trace[1] = "failure"
    /\ pc = "idle"

\* C4 as claimed: after any sequence of searches the audit log holds exactly
\* one record per network attempt made.
C4_OneRecordPerAttempt == Len(api_log) = net_calls

\* C4, amended: every attempt appends at most one record, and exactly one,
\* with the attempt's query and a success flag matching its outcome, unless
\* the append itself fails; the records number the attempts whose append
\* succeeded, and the log only grows, no record removed or rewritten.
C4_AuditLogFollowsAttempts ==
    [][ /\ IsPrefix(api_log, api_log')
        /\ Len(api_log') - Len(api_log) =
              (net_calls' - net_calls) - (log_failures' - log_failures)
        /\ Len(api_log') <= Len(api_log) + 1
        /\ Len(api_log') > Len(api_log) =>
              /\ Attempted
              /\ Last(api_log') =
                    [query |-> cur.query, success |-> (Last(trace') = "results")]
      ]_vars

\* A failed and a successful attempt are in the log, and one append failed.
C4_Witness ==
    /\ log_failures = 1
    /\ Len(api_log) = net_calls - 1
    /\ \E i, j \in 1..Len(api_log) : api_log[i].success /\ ~api_log[j].success

\* Whether a file holds value v under key k.
Persisted(file, k, v) == file.readable /\ file.store[k] = v

Described(records) ==
    \A i \in 1..Len(records) : Get(records[i], "Description", Some("")) # None

C6_OnlySuccessWritesCache ==
    [][ /\ (cache' # cache \/ cache_file' # cache_file) =>
              (Attempted /\ Last(trace') = "results")
        /\ (contract_cache' # contract_cache \/ contract_file' # contract_file) =>
              (contract_net' = contract_net + 1 /\ contract_cur'.answer = "results")
        /\ (pc = "attempt" /\ outcome' \in {"quota", "exhausted"}) =>
              /\ UNCHANGED <<cache, cache_file>>
              /\ ~CacheLookup(bust_cache, cache', cur.cache_key)
        /\ (ContractCalled /\ contract_cur'.answer = "failure") =>
              /\ UNCHANGED <<contract_cache, contract_file>>
              /\ ~ContractCacheLookup(bust_cache, contract_cache',
                                      contract_cur'.cache_key)
      ]_vars

\* A search call ended in a quota failure and a contract call in a request
\* error, and neither key is in its cache.
C6_Witness ==
    /\ outcome = "quota" /\ pc = "idle"
    /\ cache[cur.cache_key] = None
    /\ contract_outcome = "request_error"
    /\ contract_cache[contract_cur.cache_key] = None

\* C7: once a successful response has stored v under k, a later request for
\* k with bust-cache off returns exactly v without a network call (search
\* cache and contract cache), also when v is the empty list.
C7_CacheRoundTrip ==
    [][ /\ (SearchCalled /\ ~bust_cache /\ stored[cur'.cache_key] # None) =>
              /\ pc' = "idle"
              /\ ret' = stored[cur'.cache_key]
              /\ ~Attempted
        /\ (ContractCalled /\ ~bust_cache
              /\ contract_stored[contract_cur'.cache_key] # None) =>
              /\ contract_ret' = contract_stored[contract_cur'.cache_key]
              /\ contract_net' = contract_net
      ]_vars

\* An empty result list stored by a response of this run was served again.
C7_Witness ==
    /\ ~bust_cache
    /\ outcome = "hit"
    /\ stored[cur.cache_key] = Some(<<>>)
    /\ ret = Some(<<>>)
    /\ net_calls = 1

\* Two locations whose coordinates round to the same 4-decimal values (or
\* that both have none).
SameRounded(l1, l2) ==
    IF l1.coordinates = None \/ l2.coordinates = None
    THEN l1.coordinates = l2.coordinates
    ELSE /\ Round4(l1.coordinates[1].lat) = Round4(l2.coordinates[1].lat)
         /\ Round4(l1.coordinates[1].lon) = Round4(l2.coordinates[1].lon)

\* C8 as claimed: a search for a location whose coordinates round to the same
\* values as those of a location already cached under the same query is
\* served from that entry.
C8_RoundedCoordinatesShareEntry ==
    [][ \A r \in Requests :
          (/\ SearchCalled
           /\ ~bust_cache
           /\ r.query = cur'.query
           /\ SameRounded(r.location, cur'.location)
           /\ cache[_generate_cache_key(r.query, r.location)] # None) =>
              /\ cur'.cache_key = _generate_cache_key(r.query, r.location)
              /\ outcome' = "hit"
              /\ ret' = cache[_generate_cache_key(r.query, r.location)]
      ]_vars

\* C9 as claimed: two contract keys are equal exactly when latitude and
\* longitude each round to the same 4-decimal value and the radius is the same.
C9_SameKeyIffSameRounded ==
    key_out # NoKeys =>
        ((key_out[1] = key_out[2]) <=>
            /\ Round4(key_in[1].lat) = Round4(key_in[2].lat)
            /\ Round4(key_in[1].lon) = Round4(key_in[2].lon)
            /\ key_in[1].radius.tenths = key_in[2].radius.tenths)

\* C10 as claimed: when the cache file cannot be written after a successful
\* response, the call returns the results, the attempt is logged as
\* successful, and the in-memory entry serves later requests for the key.
C10_PersistFailureNonFatal ==
    [][ /\ (Attempted /\ Last(trace') = "results" /\ last_write' # "ok") =>
              /\ pc' = "idle"
              /\ ret' # None
              /\ ret' = cache'[cur.cache_key]
              /\ api_log' = Append(api_log, [query |-> cur.query, success |-> TRUE])
        /\ (SearchCalled /\ cache[cur'.cache_key] # None
              /\ ~Persisted(cache_file, cur'.cache_key, cache[cur'.cache_key])) =>
              /\ pc' = "idle"
              /\ ret' = cache[cur'.cache_key]
              /\ ~Attempted
      ]_vars

\* C10, amended: such a call returns the results and stores them in memory;
\* the attempt is passed to the audit log as successful, the record being
\* appended unless that append fails too; and with bust-cache off the
\* in-memory entry serves later requests for the key without a network call.
C10_PersistFailureKeepsMemory ==
    [][ /\ (Attempted /\ Last(trace') = "results" /\ last_write' # "ok") =>
              /\ pc' = "idle"
              /\ ret' # None
              /\ ret' = cache'[cur.cache_key]
              /\ api_log' = IF log_failures' = log_failures
                            THEN Append(api_log, [query |-> cur.query, success |-> TRUE])
                            ELSE api_log
        /\ (SearchCalled /\ ~bust_cache /\ cache[cur'.cache_key] # None
              /\ ~Persisted(cache_file, cur'.cache_key, cache[cur'.cache_key])) =>
              /\ pc' = "idle"
              /\ ret' = cache[cur'.cache_key]
              /\ ~Attempted
      ]_vars

\* An entry the file does not hold, stored by a response whose save failed
\* and that was logged as successful, served a later request.
C10_Witness ==
    /\ ~bust_cache
    /\ outcome = "hit"
    /\ last_write # "ok" /\ last_write # "none"
    /\ stored[cur.cache_key] = ret
    /\ ~Persisted(cache_file, cur.cache_key, ret)
    /\ net_calls = 1 /\ Len(api_log) = 1 /\ api_log[1].success

\* An analyze_contracts call is made in this step.
AnalyzeCalled == placemark' # placemark \/ analysis' # analysis \/ ContractCalled

\* The summary of the except branch of LocationAnalyzer.analyze_contracts.
IsErrorSummary(a) ==
    /\ "error" \in DOMAIN a
    /\ a.total_contracts = 0
    /\ a.total_value = 0
    /\ a.top_contractors = <<>>
    /\ a.summary = <<"Error analyzing contracts for this location.">>

\* C11 as claimed: in the contract path, when the cache file cannot be written
\* after a successful provider response, search_contracts_by_location still
\* returns the filtered records and the analysis of the location is computed
\* from them, not replaced by an error summary.
C11_ContractPersistFailureNonFatal ==
    [][ (/\ ContractCalled
         /\ contract_cur'.answer = "results"
         /\ Described(contract_cur'.provided)
         /\ contract_file' # File(contract_cache')) =>
            /\ contract_ret' # None
            /\ contract_ret' = contract_cache'[contract_cur'.cache_key]
            /\ analysis' # None
            /\ ~IsErrorSummary(analysis'[1])
      ]_vars

\* C12 as claimed: on a cache miss, a contract-provider call that fails (non-2xx
\* status, network error, malformed body) is retried before the empty result
\* is reported, so such a call makes more than one request.
C12_ContractFailureRetried ==
    [][ (ContractCalled /\ contract_cur'.answer = "failure") =>
            contract_net' > contract_net + 1
      ]_vars

\* Whether the aggregation can be computed from a record list.
Aggregable(records) ==
    \/ records = <<>>
    \/ HasColumn(records, "Award Amount") /\ HasColumn(records, "Recipient Name")

\* The analyze_contracts call of this step met an exception: no coordinates,
\* a contract search that raised, or records that cannot be aggregated.
AnalysisFailed ==
    \/ placemark'.point = None
    \/ contract_ret' = None
    \/ ~Aggregable(contract_ret'[1])

\* C13 as claimed: an analyze_contracts call that meets an error (missing
\* coordinates, provider failure, aggregation error) returns the error
\* summary and contract_results has no entry for the location.
C13_ErrorLeavesNoEntry ==
    [][ (/\ AnalyzeCalled
         /\ AnalysisFailed \/ (ContractCalled /\ contract_cur'.answer = "failure")) =>
            /\ analysis' # None
            /\ IsErrorSummary(analysis'[1])
            /\ contract_results'[placemark'.name] = None
      ]_vars

\* C13, amended: analyze_contracts never raises; a call that meets an
\* exception (missing coordinates, a contract search that raises, an
\* aggregation error) returns the error summary (total_contracts 0,
\* total_value 0, no top contractors, the explanatory string) and leaves
\* contract_results unchanged: it writes no entry, and an entry an earlier
\* call stored under the same name remains.  A provider failure that the
\* contract search reports as an empty list is no error at this level: it
\* gives the summary of no contracts, which is recorded.
C13_ErrorBecomesSummary ==
    [][ AnalyzeCalled =>
            /\ analysis' # None
            /\ analysis'[1].total_contracts >= 0
            /\ AnalysisFailed =>
                  /\ IsErrorSummary(analysis'[1])
                  /\ UNCHANGED contract_results
            /\ (~AnalysisFailed /\ contract_cur'.answer = "failure") =>
                  /\ analysis'[1] = USASpendingAPI_analyze_contracts(<<>>)
                  /\ contract_results'[placemark'.name] = analysis'
      ]_vars

\* The records of Site A could not be aggregated: the call returned the error
\* summary and contract_results has nothing for Site A.
C13_Witness ==
    /\ placemark.name = "Site A"
    /\ contract_outcome = "success"
    /\ contract_ret # None
    /\ ~Aggregable(contract_ret[1])
    /\ analysis # None
    /\ IsErrorSummary(analysis[1])
    /\ contract_results["Site A"] = None

\* C14: search_location_context returns exactly one entry per element of
\* self.locations, in the same order, whatever the outcome of each search; a
\* location whose search failed has an empty result list and is not left out.
C14_OneEntryPerLocation ==
    /\ Len(search_results) = Len(history)
    /\ Len(search_results) <= Len(locations)
    /\ \A i \in 1..Len(search_results) :
          /\ search_results[i].location = locations[i].name
          /\ history[i] \in {"quota", "exhausted"} => search_results[i].results = <<>>
    /\ context_ret # None =>
          /\ context_ret[1] = search_results
          /\ Len(context_ret[1]) = Len(locations)

\* A returned list of two entries: the first location's search ended in a
\* quota failure, the second, another location, gave results.
C14_Witness ==
    /\ context_ret # None
    /\ Len(context_ret[1]) = 2
    /\ locations[1] # locations[2]
    /\ history[1] = "quota"
    /\ history[2] = "success"
    /\ context_ret[1][1].results = <<>>
    /\ context_ret[1][2].results # <<>>

\* Every record of the list has a recipient and an amount.
WellFormed(records) ==
    \A i \in 1..Len(records) :
        {"Recipient Name", "Award Amount"} \subseteq DOMAIN records[i]

\* The amounts of the first n records that belong to the recipients in names,
\* added up.
RECURSIVE AmountOf(_, _, _)
AmountOf(records, names, n) ==
    IF n = 0 THEN 0
    ELSE AmountOf(records, names, n - 1)
            + (IF records[n]["Recipient Name"] \in names
               THEN records[n]["Award Amount"] ELSE 0)

RecipientsOf(records) == {records[i]["Recipient Name"] : i \in 1..Len(records)}

\* Position of the first record of a recipient.
FirstSeen(records, name) ==
    CHOOSE i \in 1..Len(records) :
        /\ records[i]["Recipient Name"] = name
        /\ \A j \in 1..(i - 1) : records[j]["Recipient Name"] # name

\* C15: for a non-empty list of records, total_contracts is the number of
\* records, total_value the sum of the amounts, and top_contractors holds
\* min(5, number of recipients) distinct recipients, each with its summed
\* amount, in descending order, no recipient left out having a larger sum.
C15_AggregationTotals ==
    (analysis_out # None /\ records_in # <<>> /\ WellFormed(records_in)) =>
        LET a == analysis_out[1]
            top == a.top_contractors
            names == RecipientsOf(records_in)
            all == Len(records_in)
        IN  /\ a.total_contracts = all
            /\ a.total_value = AmountOf(records_in, names, all)
            /\ Len(top) <= 5
            /\ Len(top) = IF Cardinality(names) < 5 THEN Cardinality(names) ELSE 5
            /\ \A i \in 1..Len(top) :
                  /\ top[i].name \in names
                  /\ top[i].total = AmountOf(records_in, {top[i].name}, all)
                  /\ \A j \in 1..Len(top) : top[i].name = top[j].name => i = j
                  /\ i < Len(top) => top[i].total >= top[i + 1].total
                  /\ \A n \in names :
                        (\A j \in 1..Len(top) : top[j].name # n) =>
                            AmountOf(records_in, {n}, all) <= top[i].total

\* Six recipients with different sums: five are kept, the largest first.
C15_Witness ==
    /\ analysis_out # None
    /\ Len(records_in) = 6
    /\ WellFormed(records_in)
    /\ analysis_out[1].total_value = 900
    /\ Len(analysis_out[1].top_contractors) = 5
    /\ analysis_out[1].top_contractors[1].total = 200
    /\ analysis_out[1].top_contractors[5].total = 100

\* C16 as claimed: recipients with equal sums are ordered in top_contractors,
\* and chosen for the top 5, by the order in which they were first encountered
\* in the record list.
C16_TiesByFirstEncounter ==
    (analysis_out # None /\ records_in # <<>> /\ WellFormed(records_in)) =>
        LET top == analysis_out[1].top_contractors
            all == Len(records_in)
        IN  /\ \A i, j \in 1..Len(top) :
                  (i < j /\ top[i].total = top[j].total) =>
                      FirstSeen(records_in, top[i].name) < FirstSeen(records_in, top[j].name)
            /\ \A n \in RecipientsOf(records_in), i \in 1..Len(top) :
                  (/\ \A j \in 1..Len(top) : top[j].name # n
                   /\ AmountOf(records_in, {n}, all) = top[i].total) =>
                      FirstSeen(records_in, top[i].name) < FirstSeen(records_in, n)

\* C17: the analysis of an empty record list is total_contracts 0,
\* total_value 0, no top contractors and the summary "No contracts found in
\* this area.".
C17_EmptyAnalysis ==
    (analysis_out # None /\ records_in = <<>>) =>
        analysis_out[1] = [total_contracts |-> 0,
                           total_value |-> 0,
                           top_contractors |-> <<>>,
                           summary |-> <<"No contracts found in this area.">>]

\* The empty list was analysed.
C17_Witness ==
    /\ records_in = <<>>
    /\ analysis_out # None
    /\ analysis_out[1].total_contracts = 0

\* A record whose ZIP has at least 3 characters, the first 3 in the allow-list.
ZipAllowed(record) ==
    /\ "Place of Performance Zip5" \in DOMAIN record
    /\ LET zip == record["Place of Performance Zip5"]
       IN  /\ Len(zip) >= 3
           /\ <<zip[1], zip[2], zip[3]>> \in
                 { <<"8", "9", "0">>, <<"8", "9", "1">>, <<"8", "9", "3">>,
                   <<"8", "9", "4">>, <<"8", "9", "5">>, <<"8", "9", "9">> }

C19_DelayDoublesFromFour ==
    \A n \in 1..Len(slept) : slept[n] = base_delay * (2 ^ n)

\* Position of a side effect in the order of the last attempt (0: not done).
Position(effect) ==
    IF \E i \in 1..Len(effects') : effects'[i] = effect
    THEN CHOOSE i \in 1..Len(effects') : effects'[i] = effect
    ELSE 0

\* What a successful attempt k does whatever the fate of the file write: the
\* k - 1 earlier attempts failed retryably, each followed by a delay; the call
\* ends without another attempt or delay; the list, reshaped to entries of
\* title, link and body, is in the in-memory cache under the key of the call
\* and is the value returned; the cache is written, then saved, then the
\* success is passed to the audit log.
SuccessEndsCall ==
    /\ Len(trace') <= max_retries
    /\ Len(slept') = Len(trace') - 1
    /\ \A i \in 1..(Len(trace') - 1) : trace'[i] = "failure"
    /\ pc' = "idle"
    /\ UNCHANGED <<attempt, slept>>
    /\ ret' # None
    /\ \A i \in 1..Len(ret'[1]) : DOMAIN ret'[1][i] = {"title", "link", "body"}
    /\ cache'[cur.cache_key] = ret'
    /\ 0 < Position("cache")
    /\ Position("cache") < Position("save")
    /\ Position("save") < Position("log")
    /\ Position("log") < Position("return")

\* C20 as claimed: when attempt k succeeds no further attempt or delay
\* follows, the reshaped list is stored under the key and persisted before the
\* success is audit-logged, and the value returned is the value stored.
C20_SuccessStoredAndPersisted ==
    [][ (Attempted /\ outcome' = "success") =>
            /\ SuccessEndsCall
            /\ Persisted(cache_file', cur.cache_key, ret')
      ]_vars

\* C20, amended: when attempt k succeeds no further attempt or delay follows;
\* the reshaped list is stored in the in-memory cache under the key, the write
\* of the cache file is made before the success is audit-logged, and the
\* value returned is the value stored; the file holds the list when that
\* write succeeds, a failed write being swallowed.
C20_SuccessStoredThenLogged ==
    [][ (Attempted /\ outcome' = "success") =>
            /\ SuccessEndsCall
            /\ last_write' = "ok" => Persisted(cache_file', cur.cache_key, ret')
      ]_vars

\* The third attempt succeeded after two retryable failures and their
\* delays: the reshaped list was cached, persisted and returned.
C20_Witness ==
    /\ outcome = "success"
    /\ trace = <<"failure", "failure", "results">>
    /\ slept = <<delay(0), delay(1)>>
    /\ pc = "idle"
    /\ ret # None /\ ret[1] # <<>>
    /\ cache[cur.cache_key] = ret
    /\ last_write = "ok"
    /\ Persisted(cache_file, cur.cache_key, ret)
    /\ effects = <<"request", "format", "cache", "save", "log", "return">>

\* C21 as claimed: every delay of a _search_with_retry call is followed by
\* another attempt, so a call that has returned after at least one attempt
\* slept one delay less than it made attempts, and none after its last one.
C21_DelaysOnlyBetweenAttempts ==
    (pc = "idle" /\ trace # <<>>) => Len(slept) = Len(trace) - 1

\* The entries a file holds under keys other than k for which the run stored
\* nothing are still in the file after the step, with the same values.
OthersKept(file, file_after, written, k) ==
    \A other \in (DOMAIN written) \ {k} :
        (written[other] = None /\ file.readable /\ file.store[other] # None) =>
            Persisted(file_after, other, file.store[other])

\* C22 as claimed: a cache write for key k that succeeds leaves the persisted
\* entries of every other key as they were, in bust-cache mode too: what the
\* store held before the run under keys the run did not request is still
\* there, in the search cache and in the contract cache.
C22_WriteKeepsOtherEntries ==
    [][ /\ (Attempted /\ outcome' = "success" /\ last_write' = "ok") =>
              OthersKept(cache_file, cache_file', stored, cur.cache_key)
        /\ (ContractCalled /\ contract_outcome' = "success") =>
              OthersKept(contract_file, contract_file', contract_stored,
                         contract_cur'.cache_key)
      ]_vars

\* The step writes the search cache / the contract cache.
SearchWrites == Attempted /\ outcome' = "success"

ContractWrites == ContractCalled /\ contract_outcome' \in {"success", "raised"}

\* C23: a cache write whose save succeeds rewrites the whole file from the
\* in-memory cache: after it the persisted mapping is the in-memory mapping,
\* and stays so until the next write, because a step that writes no cache
\* changes neither the in-memory mapping nor the file (search cache and
\* contract cache).
C23_FileMirrorsMemory ==
    [][ /\ last_write' = "ok" => cache_file' = File(cache')
        /\ ~SearchWrites => UNCHANGED <<cache, cache_file>>
        /\ (ContractWrites /\ contract_outcome' = "success") =>
              contract_file' = File(contract_cache')
        /\ ~ContractWrites => UNCHANGED <<contract_cache, contract_file>>
      ]_vars

\* In a bust-cache run a search response was cached and saved, and a contract
\* response too: each file holds exactly the in-memory mapping, the search
\* file nothing but the new entry.
C23_Witness ==
    /\ bust_cache
    /\ outcome = "success"
    /\ last_write = "ok"
    /\ cache[cur.cache_key] # None
    /\ cache_file = File(cache)
    /\ \A k \in SearchKeys \ {cur.cache_key} : cache_file.store[k] = None
    /\ contract_outcome = "success"
    /\ contract_cache[contract_cur.cache_key] = contract_ret
    /\ contract_file = File(contract_cache)

\* Whether emitted is the first min(n, length) elements of full, in order.
FirstOf(emitted, full, n) ==
    /\ Len(emitted) = IF Len(full) < n THEN Len(full) ELSE n
    /\ \A i \in 1..Len(emitted) : emitted[i] = full[i]

\* C24: the result list search_location_context emits for a location is the
\* first min(max_results, length) elements, in order, of the list obtained
\* from the cache or the provider; the key does not depend on max_results, so
\* an entry cached under one max_results serves a later call made with
\* another max_results, truncated to it, without a network attempt.
C24_EmittedIsTruncation ==
    [][ /\ Len(history') = Len(history) + 1 =>
              /\ ret' # None
              /\ FirstOf(Last(search_results').results, ret'[1], max_results)
        /\ (SearchCalled /\ ~bust_cache /\ cache[cur'.cache_key] # None) =>
              /\ ~Attempted
              /\ UNCHANGED cache
              /\ Last(history') = "hit"
              /\ FirstOf(Last(search_results').results,
                         cache[cur'.cache_key][1], max_results)
      ]_vars

\* The second call, made with max_results 1, was served from the cache the
\* two results the first call, made with max_results 5, had fetched and
\* emitted: it emitted the first of them, without a network attempt.
C24_Witness ==
    /\ context_ret # None
    /\ max_results = 1
    /\ calls = 2
    /\ net_calls = 1
    /\ history = <<"hit">>
    /\ Len(cache[cur.cache_key][1]) = 2
    /\ context_ret[1][1].results = <<cache[cur.cache_key][1][1]>>

\* The aggregate of no records.
EmptyAggregate ==
    [total_contracts |-> 0, total_value |-> 0, top_contractors |-> <<>>,
     summary |-> <<"No contracts found in this area.">>]

\* C25 as claimed: an analyze_contracts call for a placemark with coordinates
\* returns a summary; after a cache miss whose provider call failed (non-200
\* status or request error) it is the empty aggregate, recorded in
\* contract_results; after a cache hit or a successful provider call it is the
\* aggregate of the cached or freshly filtered records, recorded likewise.
C25_PipelineReachesAggregate ==
    [][ (AnalyzeCalled /\ placemark'.point # None) =>
            /\ analysis' # None
            /\ contract_outcome' \in {"non200", "request_error"} =>
                  /\ analysis'[1] = EmptyAggregate
                  /\ contract_results'[placemark'.name] = Some(EmptyAggregate)
            /\ (contract_outcome' = "hit" \/ contract_cur'.answer = "results") =>
                  LET records == IF contract_outcome' = "hit"
                                 THEN contract_cache[contract_cur'.cache_key][1]
                                 ELSE SelectSeq(contract_cur'.provided, ZipAllowed)
                  IN  /\ ~IsErrorSummary(analysis'[1])
                      /\ analysis'[1].total_contracts = Len(records)
                      /\ contract_results'[placemark'.name] = analysis'
      ]_vars

\* The words of NameWords that are left out of a query: the spellings of the
\* stopwords the, and, test, model, city, and the word of two letters.
LeftOut ==
    { <<"T", "h", "e">>, <<"a", "n", "d">>, <<"T", "E", "S", "T">>,
      <<"M", "o", "d", "e", "l">>, <<"c", "i", "t", "y">>, <<"o", "f">> }

Counts(w) == w \notin LeftOut

\* C26: _generate_search_queries returns exactly one query, a function of the
\* name alone: of the name's whitespace-separated words longer than 2
\* characters that are not a stopword in any capitalisation, the first two
\* joined by a space, or the only one, or the raw name when there is none,
\* followed by " Nevada".
C26_OneQueryFromMeaningfulWords ==
    query_out # None =>
        LET counted == SelectSeq(query_in.words, Counts)
            main == IF Len(counted) >= 2 THEN counted[1] \o <<" ">> \o counted[2]
                    ELSE IF Len(counted) = 1 THEN counted[1]
                    ELSE query_in.location.name
        IN  /\ Len(query_out[1]) = 1
            /\ query_out[1][1] = main \o <<" ", "N", "e", "v", "a", "d", "a">>

\* "The <space><tab> Old <space> Mill" gave the one query "Old Mill Nevada".
C26_Witness ==
    /\ query_in.location.name =
          <<"T", "h", "e">> \o <<" ", "\t">> \o <<"O", "l", "d">> \o <<" ">>
              \o <<"M", "i", "l", "l">>
    /\ query_out =
          Some(<< <<"O", "l", "d", " ", "M", "i", "l", "l",
                    " ", "N", "e", "v", "a", "d", "a">> >>)

====
